---- MODULE Spec2Model ----
(***************************************************************************)
(* Model of AggressorStrategy (Assignment 3/Lance/AggressorStrategy.cpp):  *)
(* one execute call moves a live character one cell towards the position   *)
(* it reads for the human player and then attacks one adjacent character.  *)
(* The state is the map grid, the global character registry and the        *)
(* human position recorded by the map.  `last' is a history variable that  *)
(* records the most recent execute call (who was called, the state the     *)
(* call started from, and which attack it issued); `origin' keeps the      *)
(* cells the characters started on.  A registry entry carries, besides     *)
(* position, hit points, map symbol and strategy, two counters: conv, the  *)
(* number of setStrategy calls made on it, and steps, the number of move   *)
(* primitives applied to it.                                               *)
(* Map, Character and Global are collaborators whose code is not part of   *)
(* AggressorStrategy.cpp; they appear as plain accessors.                  *)
(***************************************************************************)
EXTENDS Integers, Naturals, FiniteSets, Sequences, TLC

\* ---- bounds of the model -------------------------------------------------
\* registry size (entry 1 is the human player)
NumCharacters == 3
\* hit points every character starts with
MaxHP == 1
\* execute is no longer called once some character is down to -HPDepth
HPDepth == 1

\* ---- symbols -------------------------------------------------------------
Empty == " "
Wall == "#"
CharacterSymbols == {"S", "C", "O"}
Symbols == {Empty, Wall} \cup CharacterSymbols

Registry == 1 .. NumCharacters

\* the maps explored, as <<width, length>>: x ranges over the width, y over
\* the length; the second one has cells (hx, hx) outside the grid
MapSizes == {<<2, 3>>, <<3, 2>>}

CellsOf(w, l) == (0 .. (w - 1)) \X (0 .. (l - 1))

VARIABLES grid, chars, human, crashed, origin, last
vars == <<grid, chars, human, crashed, origin, last>>

\* ---- Map (collaborator; plain cell accessors) ------------------------------
getMapWidth(m) == m.width

getMapLength(m) == m.length

InBounds(m, x, y) ==
    x >= 0 /\ x <= getMapWidth(m) - 1 /\ y >= 0 /\ y <= getMapLength(m) - 1

\* a read outside the grid yields whatever the out-of-range read produces: oob
getCell(m, x, y, oob) == IF InBounds(m, x, y) THEN m.cell[<<x, y>>] ELSE oob

setCell(m, x, y, s) == [m EXCEPT !.cell[<<x, y>>] = s]

clearCell(m, x, y) == setCell(m, x, y, Empty)

\* m.getHumanPosition()[0] is read for both coordinates
humanPosX(h) == h[1]

humanPosY(h) == h[1]

\* ---- AggressorStrategy ---------------------------------------------------
Abs(n) == IF n < 0 THEN -n ELSE n

\* variant: the y term is dropped
shortestDistanceToHuman_XOnly(charPosX, charPosY, hPosX, hPosY) ==
    Abs(charPosX - hPosX)

shortestDistanceToHuman(charPosX, charPosY, hPosX, hPosY) ==
    Abs(charPosX - hPosX) + Abs(charPosY - hPosY)

\* variant: a character at exactly 0 hit points still acts
Alive_ZeroCounts(c) == c.hp >= 0

Alive(c) == c.hp > 0

moveUp(m, chs, i) ==
    LET c == chs[i]
        m1 == clearCell(m, c.x, c.y)
    IN  [grid  |-> setCell(m1, c.x - 1, c.y, c.type),
         chars |-> [chs EXCEPT ![i].x = c.x - 1, ![i].steps = c.steps + 1]]

moveDown(m, chs, i) ==
    LET c == chs[i]
        m1 == clearCell(m, c.x, c.y)
    IN  [grid  |-> setCell(m1, c.x + 1, c.y, c.type),
         chars |-> [chs EXCEPT ![i].x = c.x + 1, ![i].steps = c.steps + 1]]

moveLeft(m, chs, i) ==
    LET c == chs[i]
        m1 == clearCell(m, c.x, c.y)
    IN  [grid  |-> setCell(m1, c.x, c.y - 1, c.type),
         chars |-> [chs EXCEPT ![i].y = c.y - 1, ![i].steps = c.steps + 1]]

moveRight(m, chs, i) ==
    LET c == chs[i]
        m1 == clearCell(m, c.x, c.y)
    IN  [grid  |-> setCell(m1, c.x, c.y + 1, c.type),
         chars |-> [chs EXCEPT ![i].y = c.y + 1, ![i].steps = c.steps + 1]]

\* variant: the candidate cell is not required to be empty
CanStep_NoEmptyTest(m, x, y, hPosX, hPosY, originalDistance) ==
    shortestDistanceToHuman(x, y, hPosX, hPosY) <= originalDistance

\* the two tests every candidate cell must pass once it is known in bounds
CanStep(m, x, y, hPosX, hPosY, originalDistance) ==
    /\ getCell(m, x, y, Empty) = Empty
    /\ shortestDistanceToHuman(x, y, hPosX, hPosY) <= originalDistance

moveCloserToHuman(m, chs, i, h) ==
    LET charPosX == chs[i].x
        charPosY == chs[i].y
        hX == humanPosX(h)
        hY == humanPosY(h)
        originalDistance == shortestDistanceToHuman(charPosX, charPosY, hX, hY)
        stay == [grid |-> m, chars |-> chs]
    IN  IF originalDistance # 0
        THEN IF charPosX > 0
                /\ CanStep(m, charPosX - 1, charPosY, hX, hY, originalDistance)
             THEN moveUp(m, chs, i)
             ELSE IF charPosY > 0
                /\ CanStep(m, charPosX, charPosY - 1, hX, hY, originalDistance)
             THEN moveLeft(m, chs, i)
             ELSE IF charPosX < getMapWidth(m) - 1
                /\ CanStep(m, charPosX + 1, charPosY, hX, hY, originalDistance)
             THEN moveDown(m, chs, i)
             ELSE IF charPosY < getMapLength(m) - 1
                /\ CanStep(m, charPosX, charPosY + 1, hX, hY, originalDistance)
             THEN moveRight(m, chs, i)
             ELSE stay
        ELSE stay

\* the loop of attackCharacterAtPosition: the last registry entry recorded at
\* (x, y); 0 when the loop assigns nothing
FindCharacter(chs, x, y) ==
    LET hits == {k \in Registry : chs[k].x = x /\ chs[k].y = y}
    IN  IF hits = {} THEN 0 ELSE CHOOSE k \in hits : \A j \in hits : j <= k

\* variant: the strategy is replaced on every attack
Provoke_Always(c) ==
    [c EXCEPT !.type = "O", !.strategy = "Aggressor", !.conv = c.conv + 1]

\* a friendly target becomes hostile and gets a fresh AggressorStrategy
Provoke(c) ==
    IF c.type = "C"
    THEN [c EXCEPT !.type = "O", !.strategy = "Aggressor", !.conv = c.conv + 1]
    ELSE c

\* variant: an attack costs two hit points
Hit_Twice(c) == [c EXCEPT !.hp = c.hp - 2]

Hit(c) == [c EXCEPT !.hp = c.hp - 1]

\* ub: what the never-assigned pointer holds when no registry entry matches:
\* 0 = an invalid address (the process dies), k = a stale pointer to entry k
attackCharacterAtPosition(chs, x, y, ub) ==
    LET found == FindCharacter(chs, x, y)
        charBeingAttacked == IF found # 0 THEN found ELSE ub
    IN  IF charBeingAttacked = 0
        THEN [chars |-> chs, target |-> found, crashed |-> TRUE]
        ELSE [chars |-> [chs EXCEPT ![charBeingAttacked] =
                                        Hit(Provoke(chs[charBeingAttacked]))],
              target |-> found, crashed |-> FALSE]

\* variant: the hostile symbol is not recognised
IsCharacterSymbol_NoHostile(s) == s = "S" \/ s = "C"

IsCharacterSymbol(s) == s = "S" \/ s = "C" \/ s = "O"

NoAttack == [attacked |-> FALSE, tx |-> 0, ty |-> 0]

\* which cell canAttackOneAdjacentCharacter passes to attackCharacterAtPosition
canAttackOneAdjacentCharacter(m, chs, i, oob) ==
    LET charPosX == chs[i].x
        charPosY == chs[i].y
    IN  IF charPosX > 0
           /\ IsCharacterSymbol(getCell(m, charPosX - 1, charPosY, oob))
        THEN [attacked |-> TRUE, tx |-> charPosX - 1, ty |-> charPosY]
        ELSE IF charPosY > 0
           /\ IsCharacterSymbol(getCell(m, charPosX, charPosY - 1, oob))
        THEN [attacked |-> TRUE, tx |-> charPosX, ty |-> charPosY - 1]
        ELSE IF charPosX < getMapWidth(m) - 1
           /\ IsCharacterSymbol(getCell(m, charPosX + 1, charPosY, oob))
        THEN [attacked |-> TRUE, tx |-> charPosX + 1, ty |-> charPosY]
        ELSE IF charPosY < getMapLength(m) - 1
           /\ IsCharacterSymbol(getCell(m, charPosX, charPosY - 1, oob))
        THEN [attacked |-> TRUE, tx |-> charPosX, ty |-> charPosY + 1]
        ELSE NoAttack

\* ---- initial states: grid and registry agree ------------------------------
StrategyOf(t) == IF t = "S" THEN "Human" ELSE IF t = "C" THEN "Friendly" ELSE "Aggressor"

Character(x, y, hp, t) ==
    [x |-> x, y |-> y, hp |-> hp, type |-> t, strategy |-> StrategyOf(t), conv |-> 0,
     steps |-> 0]

GridOf(size, chs, walls) ==
    [width  |-> size[1],
     length |-> size[2],
     cell   |-> [p \in CellsOf(size[1], size[2]) |->
                   IF \E k \in Registry : <<chs[k].x, chs[k].y>> = p
                   THEN chs[CHOOSE k \in Registry : <<chs[k].x, chs[k].y>> = p].type
                   ELSE IF p \in walls THEN Wall ELSE Empty]]

\* the one cell that may hold a wall
WallCell == <<1, 1>>

Precedes(p, q) == p[1] < q[1] \/ (p[1] = q[1] /\ p[2] < q[2])

\* Entry 1 is the human player, standing on the position the map records for
\* it; the other entries are friendly or hostile characters, listed in
\* row-major order of their cells (no step depends on the registry order of
\* entries that stand on different cells).  Everybody starts at full health.
Init ==
    /\ \E size \in MapSizes :
       \E pos \in [Registry -> CellsOf(size[1], size[2])],
          typ \in [Registry \ {1} -> {"C", "O"}],
          walls \in {{}, {WallCell}} :
         /\ \A j, k \in Registry : j # k => pos[j] # pos[k]
         /\ \A j, k \in Registry \ {1} : j < k => Precedes(pos[j], pos[k])
         /\ \A k \in Registry : pos[k] \notin walls
         /\ chars = [k \in Registry |->
                       IF k = 1 THEN Character(pos[k][1], pos[k][2], MaxHP, "S")
                       ELSE Character(pos[k][1], pos[k][2], MaxHP, typ[k])]
         /\ human = pos[1]
         /\ origin = pos
         /\ grid = GridOf(size, chars, walls)
    /\ crashed = FALSE
    /\ last = [actor |-> 0, preChars |-> chars, preGrid |-> grid,
               attacked |-> FALSE, tx |-> 0, ty |-> 0, target |-> 0]

\* ---- undefined behaviour: the values a run can observe ---------------------
\* canAttackOneAdjacentCharacter reads column charPosY-1 behind the test
\* charPosY < length-1; for charPosY = 0 the read is outside the grid
OutOfRangeReads(chs, i) == IF chs[i].y - 1 >= 0 THEN {Empty} ELSE Symbols

\* charBeingAttacked is read unassigned only when no registry entry matches
UnassignedPointers(chs, at) ==
    IF at.attacked /\ FindCharacter(chs, at.tx, at.ty) = 0
    THEN 0 .. NumCharacters ELSE {0}

\* ---- AggressorStrategy::execute -------------------------------------------
execute(i) ==
    /\ ~crashed
    /\ chars[i].strategy = "Aggressor"
    /\ \A k \in Registry : chars[k].hp > -HPDepth
    /\ UNCHANGED <<human, origin>>
    /\ IF Alive(chars[i])
       THEN LET mv == moveCloserToHuman(grid, chars, i, human)
            IN  \E oob \in OutOfRangeReads(mv.chars, i) :
                LET at == canAttackOneAdjacentCharacter(mv.grid, mv.chars, i, oob)
                IN  \E ub \in UnassignedPointers(mv.chars, at) :
                    LET res == IF at.attacked
                               THEN attackCharacterAtPosition(mv.chars, at.tx, at.ty, ub)
                               ELSE [chars |-> mv.chars, target |-> 0, crashed |-> FALSE]
                    IN  /\ grid' = mv.grid
                        /\ chars' = res.chars
                        /\ crashed' = res.crashed
                        /\ last' = [actor |-> i, preChars |-> chars, preGrid |-> grid,
                                    attacked |-> at.attacked, tx |-> at.tx, ty |-> at.ty,
                                    target |-> res.target]
       ELSE /\ UNCHANGED <<grid, chars, crashed>>
            /\ last' = [actor |-> i, preChars |-> chars, preGrid |-> grid,
                        attacked |-> FALSE, tx |-> 0, ty |-> 0, target |-> 0]

Next == \E i \in Registry : execute(i)

Spec == Init /\ [][Next]_vars

\* ---- vocabulary of the properties ------------------------------------------
Manhattan(x1, y1, x2, y2) ==
    (IF x1 < x2 THEN x2 - x1 ELSE x1 - x2) + (IF y1 < y2 THEN y2 - y1 ELSE y1 - y2)

\* distance to the position moveCloserToHuman reads: index 0 for both axes
Heuristic(x, y) == Manhattan(x, y, human[1], human[1])

\* distance to the position Map.getHumanPosition returns
Actual(x, y) == Manhattan(x, y, human[1], human[2])

Called == last.actor # 0
Actor == last.actor
Before == last.preChars[last.actor]
After == chars[last.actor]
LiveCall == Called /\ Before.hp > 0
DeadCall == Called /\ Before.hp <= 0
Moved == Called /\ <<After.x, After.y>> # <<Before.x, Before.y>>
Occupants(x, y) == {k \in Registry : chars[k].x = x /\ chars[k].y = y}
HoldsCharacter(m, x, y) == InBounds(m, x, y) /\ m.cell[<<x, y>>] \in CharacterSymbols

TypeOK ==
    /\ <<grid.width, grid.length>> \in MapSizes
    /\ grid.cell \in [CellsOf(grid.width, grid.length) -> Symbols]
    /\ \A k \in Registry : InBounds(grid, chars[k].x, chars[k].y)
    /\ crashed \in BOOLEAN

\* C1: one execute call on a live character changes its position by at most
\* one orthogonal cell; when it moves, the destination is inside the grid, held
\* the empty symbol before the move, and is not farther (by the heuristic
\* distance to the human position as moveCloserToHuman reads it) than the
\* starting cell.
C1_MoveIsOneLegalStep ==
    LiveCall =>
        /\ Manhattan(After.x, After.y, Before.x, Before.y) <= 1
        /\ Moved =>
            /\ After.x >= 0 /\ After.x <= grid.width - 1
            /\ After.y >= 0 /\ After.y <= grid.length - 1
            /\ last.preGrid.cell[<<After.x, After.y>>] = Empty
            /\ Heuristic(After.x, After.y) <= Heuristic(Before.x, Before.y)

C1_Witness ==
    /\ LiveCall /\ Moved
    /\ \E p \in DOMAIN grid.cell :
          /\ last.preGrid.cell[p] # Empty
          /\ Manhattan(p[1], p[2], Before.x, Before.y) = 1

\* C2: no two registry characters share a cell, and the grid cell at every
\* registry character's recorded position holds that character's current map
\* symbol, also right after an attack that converts a friendly character.
C2_GridMatchesRegistry ==
    /\ \A j, k \in Registry :
          j # k => <<chars[j].x, chars[j].y>> # <<chars[k].x, chars[k].y>>
    /\ \A k \in Registry : grid.cell[<<chars[k].x, chars[k].y>>] = chars[k].type

\* C3: an execute call for a character whose hit points are <= 0 changes
\* nothing: no position, grid cell, hit points, symbol or strategy.
C3_DeadCharacterDoesNothing ==
    DeadCall => /\ grid = last.preGrid
                /\ chars = last.preChars
                /\ ~last.attacked

C3_Witness == DeadCall /\ Before.hp = 0 /\ Before.strategy = "Aggressor"

\* C4: the first attack on a friendly character turns it hostile with an
\* AggressorStrategy; the conversion is never repeated and never reversed:
\* a hostile character stays hostile and its strategy is not replaced again.
C4_ConversionHappensOnce ==
    Called =>
        \A k \in Registry :
            /\ chars[k].conv <= 1
            /\ last.preChars[k].type = "O" =>
                  /\ chars[k].type = "O"
                  /\ chars[k].strategy = last.preChars[k].strategy
                  /\ chars[k].conv = last.preChars[k].conv
            /\ (last.attacked /\ k \in Occupants(last.tx, last.ty)
                    /\ last.preChars[k].type = "C") =>
                  /\ chars[k].type = "O"
                  /\ chars[k].strategy = "Aggressor"
                  /\ chars[k].conv = 1

C4_Witness ==
    /\ Called /\ last.attacked
    /\ \E k \in Occupants(last.tx, last.ty) :
          last.preChars[k].conv = 1 /\ chars[k].conv = 1 /\ chars[k].type = "O"

\* C5: an attack on a cell occupied by a registry character lowers that
\* target's hit points by exactly 1, whatever they were (0 and negative
\* included), and leaves every other character's hit points unchanged.
C5_AttackCostsOneHitPoint ==
    (Called /\ last.attacked) =>
        \A t \in Occupants(last.tx, last.ty) :
            /\ chars[t].hp = last.preChars[t].hp - 1
            /\ \A k \in Registry \ {t} : chars[k].hp = last.preChars[k].hp

C5_Witness ==
    /\ Called /\ last.attacked
    /\ \E t \in Occupants(last.tx, last.ty) : last.preChars[t].hp <= 0

\* the cells canAttackOneAdjacentCharacter is meant to scan, in order
ScanOrder(x, y) == << <<x - 1, y>>, <<x, y - 1>>, <<x + 1, y>>, <<x, y + 1>> >>

\* C6: if one of the four in-bounds neighbours of the post-move position holds
\* a character symbol, exactly one occupant is attacked: the first such cell
\* in the order (x-1,y), (x,y-1), (x+1,y), (x,y+1).
C6_FirstAdjacentOccupantAttacked ==
    LiveCall =>
        LET scan == ScanOrder(After.x, After.y)
            found == {n \in 1 .. 4 : HoldsCharacter(grid, scan[n][1], scan[n][2])}
        IN  found # {} =>
              LET first == CHOOSE n \in found : \A o \in found : n <= o
              IN  /\ last.attacked
                  /\ <<last.tx, last.ty>> = scan[first]
                  /\ \A k \in Registry :
                        chars[k].hp = last.preChars[k].hp
                                        - (IF k \in Occupants(last.tx, last.ty) THEN 1 ELSE 0)

\* C7: whenever execute moves a live character, its Manhattan distance to the
\* human's actual position (hx, hy) is strictly smaller after the move.
C7_MoveApproachesHuman ==
    (LiveCall /\ Moved) => Actual(After.x, After.y) < Actual(Before.x, Before.y)

HostileUp(j) ==
    /\ last.preChars[j].type = "O"
    /\ last.preChars[j].x = Before.x - 1
    /\ last.preChars[j].y = Before.y

OthersEmpty(j) ==
    \A p \in DOMAIN grid.cell :
        p \notin {<<Before.x, Before.y>>, <<last.preChars[j].x, last.preChars[j].y>>, human}
            => last.preGrid.cell[p] = Empty

StaysAndHits(j) ==
    /\ <<After.x, After.y>> = <<Before.x, Before.y>>
    /\ chars[j].hp = last.preChars[j].hp - 1

\* C8 as stated: a live aggressor at (x,y) with a hostile at (x-1,y), any human
\* position, all other cells empty: after execute the aggressor is still at
\* (x,y) and the hostile has exactly 1 hit point less.
C8_AdjacentHostileAsStated ==
    LiveCall =>
        \A j \in Registry \ {Actor} : (HostileUp(j) /\ OthersEmpty(j)) => StaysAndHits(j)

StepOpen(x, y) ==
    /\ InBounds(grid, x, y)
    /\ last.preGrid.cell[<<x, y>>] = Empty
    /\ Heuristic(x, y) < Heuristic(Before.x, Before.y)

NoStepOpen ==
    \/ Heuristic(Before.x, Before.y) = 0
    \/ ~ \/ StepOpen(Before.x, Before.y - 1)
         \/ StepOpen(Before.x + 1, Before.y)
         \/ StepOpen(Before.x, Before.y + 1)

\* C8 amended: a live aggressor at (x,y) with a hostile at (x-1,y) stays at
\* (x,y) and takes exactly 1 hit point from that hostile, provided the move
\* step has no cell to take: the heuristic distance is already 0, or none of
\* (x,y-1), (x+1,y), (x,y+1) is an in-bounds empty cell nearer to the position
\* moveCloserToHuman reads.
C8_AdjacentHostileWhenNoStep ==
    LiveCall =>
        \A j \in Registry \ {Actor} : (HostileUp(j) /\ NoStepOpen) => StaysAndHits(j)

C8_Witness ==
    /\ LiveCall
    /\ Heuristic(Before.x, Before.y) # 0
    /\ \E j \in Registry \ {Actor} :
          HostileUp(j) /\ NoStepOpen /\ last.preChars[j].hp = 1 /\ chars[j].hp = 0

\* C9: every attackCharacterAtPosition call targets in-bounds coordinates at
\* which some registry character is recorded (the unmatched-target
\* dereference is unreachable), for every branch and also at y = 0.
C9_AttackTargetIsRegistered ==
    (Called /\ last.attacked) =>
        /\ InBounds(grid, last.tx, last.ty)
        /\ Occupants(last.tx, last.ty) # {}
        /\ ~crashed

\* C10: every move lowers the heuristic distance abs(x-hx)+abs(y-hx) by
\* exactly 1, a character at heuristic distance 0 does not move, and the
\* number of moves a character has made never exceeds its initial heuristic
\* distance D (moves made + current distance = D).
C10_MovesBoundedByDistance ==
    /\ \A k \in Registry :
          /\ chars[k].steps + Heuristic(chars[k].x, chars[k].y)
                = Heuristic(origin[k][1], origin[k][2])
          /\ chars[k].steps <= Heuristic(origin[k][1], origin[k][2])
    /\ Moved => Heuristic(After.x, After.y) = Heuristic(Before.x, Before.y) - 1
    /\ (Called /\ Heuristic(Before.x, Before.y) = 0) => ~Moved

C10_Witness ==
    /\ LiveCall
    /\ Heuristic(Before.x, Before.y) = 0
    /\ Before.steps >= 2
    /\ Before.steps = Heuristic(origin[Actor][1], origin[Actor][2])
====
